---------------------------- MODULE Spec2Model ----------------------------
(***************************************************************************)
(* Application status state machine of apex-global-careers.                *)
(*                                                                         *)
(* The repository holds two implementations of the review workflow, each   *)
(* with its own store:                                                     *)
(*   - the application router (src/server/routes/application.js), which    *)
(*     keeps one Mongoose document per applicant e-mail (variable app);    *)
(*   - the admin router (second half of src/server/models/Editing.js),     *)
(*     which keeps one metadata.json per applicant e-mail (variable        *)
(*     metadata).                                                          *)
(* The editing router (the part of src/server/routes/application.js after   *)
(* the first module.exports) keeps one editing-metadata.json per e-mail     *)
(* (variable editing).                                                      *)
(* One applicant e-mail is modelled.  Every handler is one atomic action.  *)
(***************************************************************************)
EXTENDS Integers, Sequences, FiniteSets, TLC

VARIABLES
    app,        \* the Application document of the e-mail, or Absent
    metadata,   \* the metadata.json of the e-mail, or Absent
    folder,     \* the directory uploads/<e-mail>, metadata.json apart
    editing,    \* the editing-metadata.json of the e-mail, or Absent
    clock,      \* the time of the last write
    request,    \* the request, or the timer event, handled last
    response,   \* the reply it got, or what the timer event logged
    downloadTokens, \* the Map downloadTokens of the editing router
    minted,     \* the number of tokens crypto.randomBytes has produced
    time,       \* Date.now(), in hours
    history,    \* the requests of a scenario that have written the record, in order
    handlers,   \* the upload handlers that run at the same time: where each is, what it holds
    accepted    \* the number of uploads that got the success reply

vars == <<app, metadata, folder, editing, clock, request, response,
          downloadTokens, minted, time, history, handlers, accepted>>

\* the state of the download tokens
tokenVars == <<downloadTokens, minted, time>>

\* the state of the upload handlers that run at the same time
raceVars == <<handlers, accepted>>

\* the state only the scenarios, the download tokens and these handlers use
otherVars == <<downloadTokens, minted, time, history, handlers, accepted>>

(***************************************************************************)
(* Bounds of the exploration.                                              *)
(***************************************************************************)
\* number of handler runs that write a record (the logical clock stops here)
MaxClock == 4

\* the same for the runs in which the applicant uploads and the admin only reviews
MaxRoundClock == 5

\* the same for the runs in which a cv is rejected and uploaded again
MaxScenarioClock == 7

\* the same for the admin router
MaxAdminClock == 3

\* the same for the two review handlers run side by side (two writes an event)
MaxPairClock == 4

\* the same for the upload handlers that run at the same time
MaxRaceClock == 4

\* the same for the editing service
MaxEditingClock == 3

\* the same for the editing service with its download tokens
MaxDownloadClock == 3

\* number of download tokens generated
MaxTokens == 2

\* number of hours that pass
MaxTime == 2

(***************************************************************************)
(* Vocabulary.                                                             *)
(***************************************************************************)
\* application.js:251  documentFields of the upload handler
DocumentFields ==
    {"passport", "photo", "cv", "coverLetter", "qualifications", "experience", "documents"}

\* the keys the Maps and objects indexed by documentType are given: the seven
\* fields and "selfie", a name that is no document kind of the program
DocumentKinds == DocumentFields \cup {"selfie"}

\* Editing.js:758 / Editing.js:682  requiredDocs of the admin router
RequiredDocs == {"passport", "photo", "cv", "qualifications"}

\* Editing.js:800  optionalDocs of the admin router
OptionalDocs == {"coverLetter", "experience"}

\* application.js:578  requiredDocs of the application router (six kinds)
MongoRequiredDocs ==
    {"passport", "photo", "cv", "coverLetter", "qualifications", "experience"}

\* part_000:119-124  enum of applicationSchema.status
StatusEnum ==
    {"received", "review", "documents-approved", "changes-required",
     "reupload-requested", "processed", "pending", "editing_in_progress",
     "editing_completed", "editing_paid"}

\* Editing.js:661-663  validStatuses of the admin router
ValidStatuses ==
    {"received", "review", "documents-approved", "changes-required",
     "reupload-requested", "processed", "editing_pending", "editing_in_progress",
     "editing_completed", "editing_paid"}

\* part_000:13  enum of documentReviewSchema.status
ReviewStatusEnum == {"pending", "approved", "rejected"}

(***************************************************************************)
(* Inputs the handlers are driven with.                                    *)
(***************************************************************************)
\* documentType values sent to the review handlers
ReviewKindInputs == {"passport", "photo", "cv", "qualifications", "coverLetter"}

\* documentType values sent to the review handler when the applicant uploads
\* and the admin only reviews: one of them is no document kind
RoundKindInputs == ReviewKindInputs \cup {"selfie"}

\* status values sent to the review handlers
DecisionInputs == {"approved", "rejected", "pending"}

\* status values sent to the status handlers: "pending" is valid for the
\* application router only, "editing_pending" for the admin router only,
\* "archived" for neither
StatusInputs ==
    {"review", "documents-approved", "processed", "editing_paid",
     "pending", "editing_pending", "archived"}

\* forms sent to the upload handler: fieldsOk stands for the personal-information
\* and e-mail checks, files is the set of fields that carry files, and in the
\* job-preference fields "" is a field sent empty, "undef" a field not sent
UploadInputs ==
    { [fieldsOk |-> FALSE, files |-> {"cv"},
       preferredCountry |-> "Germany", preferredJob |-> "Nurses", additionalInfo |-> "note"],
      [fieldsOk |-> TRUE, files |-> {},
       preferredCountry |-> "Germany", preferredJob |-> "Nurses", additionalInfo |-> "note"],
      [fieldsOk |-> TRUE, files |-> {"passport", "photo", "cv", "qualifications"},
       preferredCountry |-> "Germany", preferredJob |-> "Nurses", additionalInfo |-> "note"],
      [fieldsOk |-> TRUE, files |-> {"cv"},
       preferredCountry |-> "undef", preferredJob |-> "undef", additionalInfo |-> "undef"],
      [fieldsOk |-> TRUE, files |-> {"cv", "coverLetter"},
       preferredCountry |-> "Canada", preferredJob |-> "", additionalInfo |-> "undef"],
      [fieldsOk |-> TRUE, files |-> {"cv"},
       preferredCountry |-> "Canada", preferredJob |-> "", additionalInfo |-> ""] }

\* serviceType values sent with an editing request ("undef": not sent)
ServiceTypeInputs == {"cv", "cover", "both", "undef"}

\* sets of file fields sent with an upload of edited documents
EditedFilesInputs == SUBSET {"edited_cv", "edited_cover"}

\* transactionId values sent to the payment handlers ("undef": not sent)
TransactionInputs == {"T1", "undef"}

\* serviceType values sent to the verify-payment handler of the admin router
PaidServiceInputs == {"editing", "cv"}

\* documents arrays sent to the request-reupload handlers
ReuploadInputs ==
    { <<"cv">>, <<"cv", "cv">>, <<"cv", "photo">>, <<"photo", "cv">> }

NoRequest == [op |-> "none"]

NoResponse == [code |-> 0, error |-> "none"]

Reply(code, error) == [code |-> code, error |-> error]

\* application.js:347-355  the body the upload handler answers with
UploadReply(uploadCount) ==
    [code |-> 200, error |-> "none",
     uploadCount |-> uploadCount,
     maxUploadsReached |-> uploadCount >= 3,
     remainingUploads |-> 3 - uploadCount]

(***************************************************************************)
(* JavaScript helpers.                                                     *)
(***************************************************************************)
\* a form field that counts as false in a condition: empty or not sent
Falsy(v) == v \in {"", "undef"}

\* position of a kind in the order Array.prototype.sort() gives strings
KindRank(k) ==
    CASE k = "coverLetter"    -> 1
      [] k = "cv"             -> 2
      [] k = "documents"      -> 3
      [] k = "experience"     -> 4
      [] k = "passport"       -> 5
      [] k = "photo"          -> 6
      [] k = "qualifications" -> 7
      [] OTHER                -> 8

RECURSIVE InsertSorted(_, _)
InsertSorted(k, s) ==
    IF s = <<>> THEN <<k>>
    ELSE IF KindRank(k) < KindRank(Head(s)) THEN <<k>> \o s
    ELSE <<Head(s)>> \o InsertSorted(k, Tail(s))

\* Array.prototype.sort() on an array of kind names
RECURSIVE SortDocs(_)
SortDocs(s) == IF s = <<>> THEN <<>> ELSE InsertSorted(Head(s), SortDocs(Tail(s)))

(***************************************************************************)
(* The Mongoose document of the application router.                        *)
(***************************************************************************)
\* no document stored for the e-mail (findOne returns null)
Absent == [exists |-> FALSE]

\* no directory uploads/<e-mail>
NoFolder == [exists |-> FALSE, files |-> {}]

\* application.js:52-60  multer stores the files of a request in
\* uploads/<e-mail>, which it creates, before the handler runs
StoreFiles(dir, files) ==
    IF files = {} THEN dir
    ELSE [exists |-> TRUE, files |-> dir.files \cup files]

NoReview == [status |-> "none", rejectionCount |-> 0]

\* application.js:269-300  new Application({...}) of the upload handler
NewApplication(files, prefs, now) ==
    [ exists |-> TRUE,
      status |-> "received",
      uploadCount |-> 1,
      maxUploadsReached |-> FALSE,
      uploadedFiles |-> [k \in DocumentFields |-> IF k \in files THEN <<1>> ELSE <<>>],
      uploadHistory |-> << files >>,
      jobPreferences |-> [preferredCountry |-> prefs.preferredCountry,
                          preferredJob |-> prefs.preferredJob,
                          additionalInfo |-> IF Falsy(prefs.additionalInfo)
                                             THEN "" ELSE prefs.additionalInfo],
      documentReviews |-> [k \in DocumentKinds |-> NoReview],
      documentRejectionCount |-> [k \in DocumentKinds |-> 0],
      comments |-> <<>>,
      reuploadRequests |-> <<>>,
      lastUploadAt |-> 0,
      createdAt |-> now,
      updatedAt |-> now ]

\* job preferences copied from the form whether sent or not
UpdatedPreferencesOverwritten(old, prefs) ==
    [ preferredCountry |-> prefs.preferredCountry,
      preferredJob |-> prefs.preferredJob,
      additionalInfo |-> prefs.additionalInfo ]

\* application.js:316-338  job preferences are taken from the form only when sent
UpdatedPreferences(old, prefs) ==
    IF ~Falsy(prefs.preferredCountry) \/ ~Falsy(prefs.preferredJob)
         \/ ~Falsy(prefs.additionalInfo)
    THEN [ preferredCountry |-> IF ~Falsy(prefs.preferredCountry)
                                THEN prefs.preferredCountry ELSE old.preferredCountry,
           preferredJob |-> IF ~Falsy(prefs.preferredJob)
                            THEN prefs.preferredJob ELSE old.preferredJob,
           additionalInfo |-> IF prefs.additionalInfo # "undef"
                              THEN prefs.additionalInfo ELSE old.additionalInfo ]
    ELSE old

\* a check that looks at the preferred country only
MissingPreferencesCountryOnly(prefs) == Falsy(prefs.preferredCountry)

\* application.js:223  (!preferredCountry || !preferredJob) of a new application
MissingPreferences(prefs) == Falsy(prefs.preferredCountry) \/ Falsy(prefs.preferredJob)

\* the limit check one upload too late
MaxUploadsExceededLate(uploadCount) == uploadCount > 4

\* application.js:210  the upload limit check
MaxUploadsExceeded(uploadCount) == uploadCount > 3

\* a re-upload that keeps the status it finds
StatusAfterReuploadKept(old) == old

\* application.js:340-341  "Reset status to received on reupload"
StatusAfterReupload(old) == "received"

\* application.js:146-374  router.post('/upload')
Upload(form) ==
    LET fieldsOk == form.fieldsOk
        files == form.files
        prefs == form
        exists == app.exists
        uploadCount == IF exists THEN app.uploadCount + 1 ELSE 1
        now == clock + 1
    IN  IF ~fieldsOk
        THEN /\ response' = Reply(400, "MISSING_FIELDS")
             /\ folder' = StoreFiles(folder, files)
             /\ UNCHANGED <<app, metadata, clock>>
        ELSE IF exists /\ MaxUploadsExceeded(uploadCount)
        THEN /\ response' = Reply(400, "MAX_UPLOADS_REACHED")
             /\ folder' = StoreFiles(folder, files)
             /\ UNCHANGED <<app, metadata, clock>>
        ELSE IF ~exists /\ MissingPreferences(prefs)
        THEN /\ response' = Reply(400, "MISSING_PREFERENCES")
             /\ folder' = StoreFiles(folder, files)
             /\ UNCHANGED <<app, metadata, clock>>
        ELSE IF files = {}
        THEN \* application.js:232-233  the directory is made before the files check
             /\ response' = Reply(400, "NO_FILES")
             /\ folder' = [folder EXCEPT !.exists = TRUE]
             /\ UNCHANGED <<app, metadata, clock>>
        ELSE /\ clock' = now
             /\ folder' = StoreFiles(folder, files)
             /\ app' = IF ~exists
                       THEN NewApplication(files, prefs, now)
                       ELSE [app EXCEPT
                               !.uploadedFiles = [k \in DocumentFields |->
                                    IF k \in files THEN <<uploadCount>> ELSE @[k]],
                               !.uploadCount = uploadCount,
                               !.uploadHistory = Append(@, files),
                               !.lastUploadAt = now,
                               !.updatedAt = now,
                               !.jobPreferences = UpdatedPreferences(@, prefs),
                               !.status = StatusAfterReupload(@)]
             /\ response' = UploadReply(uploadCount)
             /\ UNCHANGED metadata

\* part_000:104-184  applicationSchema declares no documentStatus path, so the
\* Map the review handler attaches at application.js:531 is a plain property of
\* the loaded object: it is empty after every findOne and is not written by save()
LoadedDocumentStatus(a) == [k \in DocumentKinds |-> "none"]

\* part_000:12-18  a review stored without rejectionCount takes the schema default
StoredReview(status) == [status |-> status, rejectionCount |-> 0]

\* application.js:558-560  the rejection counter of the reviewed kind
MongoRejectionCount(counts, documentType, status) ==
    IF status = "rejected"
    THEN [counts EXCEPT ![documentType] = @ + 1]
    ELSE counts

\* application.js:582-590  allApproved over the six requiredDocs
MongoAllApproved(documentStatus) ==
    \A doc \in MongoRequiredDocs : documentStatus[doc] = "approved"

\* application.js:582-590  allRejected over the six requiredDocs
MongoAllRejected(documentStatus) ==
    \A doc \in MongoRequiredDocs : documentStatus[doc] = "rejected"

\* application.js:605  hasRejections over the values of documentStatus
MongoHasRejections(documentStatus) ==
    \E k \in DOMAIN documentStatus : documentStatus[k] = "rejected"

\* application.js:592-615  the overall status after a review
MongoDerivedStatus(old, documentStatus) ==
    LET s1 == IF MongoAllApproved(documentStatus) /\ old # "documents-approved"
              THEN "documents-approved" ELSE old
    IN  IF ~MongoAllApproved(documentStatus) /\ ~MongoAllRejected(documentStatus)
           /\ MongoHasRejections(documentStatus) /\ s1 # "changes-required"
        THEN "changes-required"
        ELSE s1

\* a comment entry: its type field ("none" when the handler sets none) and the
\* handler that pushed it
Comment(type, by) == [type |-> type, by |-> by]

\* part_000:20-25  commentSchema declares text, timestamp, admin and user: the
\* type of a pushed comment is not a path of the schema and is not kept
CastComment(c) == [type |-> "none", by |-> c.by]

\* a save() that validates nothing
StatusValidatedAlways(status) == TRUE

\* part_000:119-124  save() validates status against the enum of the schema
StatusValidated(status) == status \in StatusEnum

\* application.js:515-648  router.post('/admin/application/:email/document/review')
MongoReview(documentType, status) ==
    IF ~app.exists
    THEN /\ response' = Reply(404, "NOT_FOUND")
         /\ UNCHANGED <<app, metadata, clock>>
    ELSE IF status \notin ReviewStatusEnum
    THEN \* save() rejects the document: part_000:13
         /\ response' = Reply(500, "SAVE_FAILED")
         /\ UNCHANGED <<app, metadata, clock>>
    ELSE LET now == clock + 1
             documentStatus == [LoadedDocumentStatus(app) EXCEPT ![documentType] = status]
             c1 == IF status = "rejected" THEN <<CastComment(Comment("system", "review"))>>
                   ELSE IF status = "approved" THEN <<CastComment(Comment("system", "review"))>>
                   ELSE <<>>
             s1 == IF MongoAllApproved(documentStatus) /\ app.status # "documents-approved"
                   THEN "documents-approved" ELSE app.status
             c2 == IF s1 # app.status THEN <<CastComment(Comment("system", "review"))>> ELSE <<>>
             s2 == MongoDerivedStatus(app.status, documentStatus)
             c3 == IF s2 # s1 THEN <<CastComment(Comment("system", "review"))>> ELSE <<>>
         IN  /\ clock' = now
             /\ app' = [app EXCEPT
                          !.documentReviews[documentType] = StoredReview(status),
                          !.documentRejectionCount =
                               MongoRejectionCount(@, documentType, status),
                          !.comments = @ \o c1 \o c2 \o c3,
                          !.status = s2,
                          !.updatedAt = now]
             /\ response' = Reply(200, "none")
             /\ UNCHANGED metadata

\* application.js:673-695  the kinds whose documentStatus the sync sets: those
\* with a review whose status differs from the documentStatus of the kind
OutOfSync(reviews, documentStatus) ==
    {k \in DOMAIN reviews :
        reviews[k].status # "none" /\ documentStatus[k] # reviews[k].status}

\* application.js:654-735  router.post('/admin/application/:email/sync-document-statuses')
MongoSync ==
    IF ~app.exists
    THEN /\ response' = Reply(404, "NOT_FOUND")
         /\ UNCHANGED <<app, metadata, clock>>
    ELSE LET syncCount == Cardinality(OutOfSync(app.documentReviews,
                                                LoadedDocumentStatus(app)))
         IN  /\ clock' = clock + 1
             /\ app' = [app EXCEPT
                          !.comments = IF syncCount > 0
                                       THEN Append(@, CastComment(Comment("system", "sync")))
                                       ELSE @,
                          !.updatedAt = clock + 1]
             /\ response' = [code |-> 200, error |-> "none", syncCount |-> syncCount]
             /\ UNCHANGED metadata

\* application.js:896-945  router.post('/admin/application/:email/status')
MongoSetStatus(status) ==
    IF ~app.exists
    THEN /\ response' = Reply(404, "NOT_FOUND")
         /\ UNCHANGED <<app, metadata, clock>>
    ELSE IF ~StatusValidated(status)
    THEN \* save() rejects the document: part_000:119-124
         /\ response' = Reply(500, "SAVE_FAILED")
         /\ UNCHANGED <<app, metadata, clock>>
    ELSE /\ clock' = clock + 1
         /\ app' = [app EXCEPT !.status = status,
                               !.updatedAt = clock + 1,
                               !.comments = Append(@, CastComment(Comment("system", "status")))]
         /\ response' = Reply(200, "none")
         /\ UNCHANGED metadata

\* application.js:951-995  router.post('/admin/application/:email/comment')
MongoComment ==
    IF ~app.exists
    THEN /\ response' = Reply(404, "NOT_FOUND")
         /\ UNCHANGED <<app, metadata, clock>>
    ELSE /\ clock' = clock + 1
         /\ app' = [app EXCEPT !.comments = Append(@, CastComment(Comment("admin", "comment"))),
                               !.updatedAt = clock + 1]
         /\ response' = Reply(200, "none")
         /\ UNCHANGED metadata

\* application.js:1001-1056  router.post('/admin/application/:email/request-reupload')
MongoRequestReupload(documents) ==
    IF ~app.exists
    THEN /\ response' = Reply(404, "NOT_FOUND")
         /\ UNCHANGED <<app, metadata, clock>>
    ELSE /\ clock' = clock + 1
         /\ app' = [app EXCEPT
                      !.status = "reupload-requested",
                      !.reuploadRequests =
                           Append(@, [documents |-> documents, status |-> "pending",
                                      completedAt |-> 0]),
                      !.comments = Append(@, CastComment(Comment("system", "reupload"))),
                      !.updatedAt = clock + 1]
         /\ response' = Reply(200, "none")
         /\ UNCHANGED metadata

\* application.js:458-461  the comments the client is shown
ClientComments(comments) == SelectSeq(comments, LAMBDA c : c.type = "admin")

\* application.js:380-510  router.get('/status/:email')
ClientStatus ==
    /\ response' = IF ~app.exists
                   THEN Reply(404, "NOT_FOUND")
                   ELSE [code |-> 200, error |-> "none",
                         applicationStatus |-> app.status,
                         currentUploadCount |-> app.uploadCount,
                         maxUploadsReached |-> app.uploadCount >= 3,
                         remainingUploads |-> 3 - app.uploadCount,
                         comments |-> ClientComments(app.comments)]
    /\ UNCHANGED <<app, metadata, folder, clock>>

\* a delete that leaves the directory of the applicant in place
FolderKeptAfterDelete(dir) == dir

\* application.js:1367-1371  fs.rmSync(clientFolder, {recursive, force})
FolderAfterDelete(dir) == NoFolder

\* application.js:1355-1395  router.delete('/admin/application/:email'); the
\* directory it removes is the one that holds metadata.json
MongoDelete ==
    IF ~app.exists
    THEN /\ response' = Reply(404, "NOT_FOUND")
         /\ UNCHANGED <<app, metadata, folder, clock>>
    ELSE /\ clock' = clock + 1
         /\ folder' = FolderAfterDelete(folder)
         /\ metadata' = IF folder.exists THEN Absent ELSE metadata
         /\ app' = Absent
         /\ response' = Reply(200, "none")

(***************************************************************************)
(* The metadata.json of the admin router.                                  *)
(***************************************************************************)
\* spec.md section 3: a metadata.json as the first upload leaves it; parameter
\* files is the set of kinds that have uploaded files
NewMetadata(files) ==
    [ exists |-> TRUE,
      status |-> "received",
      uploadedFiles |-> files,
      documentReviews |-> <<>>,
      documentRejectionCount |-> [k \in DocumentKinds |-> 0],
      reuploadRequests |-> <<>>,
      comments |-> <<>>,
      serviceType |-> "undef",
      editedFiles |-> {},
      payments |-> <<>>,
      paymentStatus |-> "pending",
      updatedAt |-> 0 ]

\* metadata.documentReviews is a JavaScript object: a sequence of entries in
\* key insertion order.  ReviewOf is reviews[doc] (status "none" for undefined)
ReviewOf(reviews, doc) ==
    IF \E i \in 1..Len(reviews) : reviews[i].kind = doc
    THEN LET i == CHOOSE j \in 1..Len(reviews) : reviews[j].kind = doc
         IN  [status |-> reviews[i].status, rejectionCount |-> reviews[i].rejectionCount]
    ELSE NoReview

\* Editing.js:750-756  metadata.documentReviews[documentType] = {...}
SetReview(reviews, documentType, status, rejectionCount) ==
    LET entry == [kind |-> documentType, status |-> status,
                  rejectionCount |-> rejectionCount]
    IN  IF \E i \in 1..Len(reviews) : reviews[i].kind = documentType
        THEN [i \in 1..Len(reviews) |->
                 IF reviews[i].kind = documentType THEN entry ELSE reviews[i]]
        ELSE Append(reviews, entry)

\* Editing.js:745-748  the rejection counter of the reviewed kind
RejectionCountAfter(counts, documentType, status) ==
    IF status = "rejected"
    THEN [counts EXCEPT ![documentType] = @ + 1]
    ELSE counts

\* Editing.js:761-763  hasRejections
HasRejections(reviews) == \E i \in 1..Len(reviews) : reviews[i].status = "rejected"

\* Editing.js:768-770  Object.keys(reviews).filter(rejected), in key order
RECURSIVE RejectedKeys(_)
RejectedKeys(reviews) ==
    IF reviews = <<>> THEN <<>>
    ELSE (IF Head(reviews).status = "rejected" THEN <<Head(reviews).kind>> ELSE <<>>)
         \o RejectedKeys(Tail(reviews))

\* Editing.js:777-780 and 920-923  the test some()/find() applies to a request
SameDocuments(req, documents) ==
    /\ req.status = "pending"
    /\ SortDocs(req.documents) = SortDocs(documents)

\* index of the first request some()/find() accepts, 0 when there is none
FirstMatch(requests, documents) ==
    IF \E i \in 1..Len(requests) : SameDocuments(requests[i], documents)
    THEN CHOOSE i \in 1..Len(requests) :
             /\ SameDocuments(requests[i], documents)
             /\ \A j \in 1..(i - 1) : ~SameDocuments(requests[j], documents)
    ELSE 0

\* number of requests some()/find() visits before it stops
Visited(requests, documents) ==
    IF FirstMatch(requests, documents) = 0 THEN Len(requests)
    ELSE FirstMatch(requests, documents)

\* Editing.js:779 and 922  r.documents.sort() sorts the stored array of every
\* pending request the scan visits
AfterScan(requests, documents) ==
    [i \in 1..Len(requests) |->
        IF i <= Visited(requests, documents) /\ requests[i].status = "pending"
        THEN [requests[i] EXCEPT !.documents = SortDocs(@)]
        ELSE requests[i]]

\* Editing.js:779 and 922  the second .sort() sorts the candidate array as soon
\* as the scan visits one pending request
CandidateAfterScan(requests, documents) ==
    IF \E i \in 1..Visited(requests, documents) : requests[i].status = "pending"
    THEN SortDocs(documents)
    ELSE documents

NewRequest(documents) == [documents |-> documents, status |-> "pending", completedAt |-> 0]

\* Editing.js:776-794 and 916-932  push a request unless a pending one has the
\* same documents
PushUnlessPending(requests, documents) ==
    IF FirstMatch(requests, documents) = 0
    THEN Append(AfterScan(requests, documents),
                NewRequest(CandidateAfterScan(requests, documents)))
    ELSE AfterScan(requests, documents)

\* Editing.js:694-701 and 809-816  every pending request becomes completed
CompletePending(requests, now) ==
    [i \in 1..Len(requests) |->
        IF requests[i].status = "pending"
        THEN [requests[i] EXCEPT !.status = "completed", !.completedAt = now]
        ELSE requests[i]]

\* Editing.js:684-686 and 796-798  every required document is approved
AllRequiredApproved(reviews) ==
    \A doc \in RequiredDocs : ReviewOf(reviews, doc).status = "approved"

\* Editing.js:800-804  every optional document that has files is approved
OptionalReviewed(uploadedFiles, reviews) ==
    \A doc \in OptionalDocs :
        doc \notin uploadedFiles \/ ReviewOf(reviews, doc).status = "approved"

\* a filter that keeps every request
StillNeededAlways(req, reviews) == TRUE

\* Editing.js:823-831  the filter applied to reuploadRequests after a review
StillNeeded(req, reviews) ==
    \/ req.status # "pending"
    \/ \E i \in 1..Len(req.documents) :
           ReviewOf(reviews, req.documents[i]).status = "rejected"

PruneRequests(reqs, reviews) ==
    SelectSeq(reqs, LAMBDA req : StillNeeded(req, reviews))

\* Editing.js:726-857  router.post('/application/:email/document/review')
AdminReview(documentType, status) ==
    IF ~metadata.exists
    THEN /\ response' = Reply(404, "NOT_FOUND")
         /\ UNCHANGED <<app, metadata, clock>>
    ELSE
    LET now == clock + 1
        counts == RejectionCountAfter(metadata.documentRejectionCount, documentType, status)
        reviews == SetReview(metadata.documentReviews, documentType, status,
                             counts[documentType])
        approved == AllRequiredApproved(reviews)
                      /\ OptionalReviewed(metadata.uploadedFiles, reviews)
        newStatus == IF HasRejections(reviews) THEN "changes-required"
                     ELSE IF approved THEN "documents-approved"
                     ELSE IF metadata.status # "changes-required" THEN "review"
                     ELSE metadata.status
        requests == IF HasRejections(reviews)
                    THEN PushUnlessPending(metadata.reuploadRequests, RejectedKeys(reviews))
                    ELSE IF approved
                    THEN CompletePending(metadata.reuploadRequests, now)
                    ELSE metadata.reuploadRequests
    IN  /\ clock' = now
        /\ metadata' = [metadata EXCEPT
                          !.documentRejectionCount = counts,
                          !.documentReviews = reviews,
                          !.status = newStatus,
                          !.reuploadRequests = PruneRequests(requests, reviews),
                          !.updatedAt = now]
        /\ response' = Reply(200, "none")
        /\ UNCHANGED app

\* Editing.js:650-719  router.post('/application/:email/status')
AdminSetStatus(status, notes) ==
    IF ~metadata.exists
    THEN /\ response' = Reply(404, "NOT_FOUND")
         /\ UNCHANGED <<app, metadata, clock>>
    ELSE IF status \notin ValidStatuses
    THEN /\ response' = Reply(400, "INVALID_STATUS")
         /\ UNCHANGED <<app, metadata, clock>>
    ELSE IF status = "documents-approved" /\ ~AllRequiredApproved(metadata.documentReviews)
    THEN /\ response' = Reply(400, "NOT_APPROVED")
         /\ UNCHANGED <<app, metadata, clock>>
    ELSE /\ clock' = clock + 1
         /\ metadata' = [metadata EXCEPT
                           !.status = status,
                           !.updatedAt = clock + 1,
                           !.comments = IF notes THEN Append(@, Comment("none", "status"))
                                        ELSE @,
                           !.reuploadRequests = IF status = "documents-approved"
                                                THEN CompletePending(@, clock + 1)
                                                ELSE @]
         /\ response' = Reply(200, "none")
         /\ UNCHANGED app

\* Editing.js:860-892  router.post('/application/:email/comment')
AdminComment ==
    IF ~metadata.exists
    THEN /\ response' = Reply(404, "NOT_FOUND")
         /\ UNCHANGED <<app, metadata, clock>>
    ELSE /\ clock' = clock + 1
         /\ metadata' = [metadata EXCEPT !.comments = Append(@, Comment("none", "comment")),
                                         !.updatedAt = clock + 1]
         /\ response' = Reply(200, "none")
         /\ UNCHANGED app

\* Editing.js:906-908  the requested documents whose review is rejected
RejectedDocs(documents, reviews) ==
    SelectSeq(documents, LAMBDA doc : ReviewOf(reviews, doc).status = "rejected")

\* Editing.js:895-952  router.post('/application/:email/request-reupload')
AdminRequestReupload(documents) ==
    IF ~metadata.exists
    THEN /\ response' = Reply(404, "NOT_FOUND")
         /\ UNCHANGED <<app, metadata, clock>>
    ELSE
    LET rejectedDocs == RejectedDocs(documents, metadata.documentReviews)
    IN  IF rejectedDocs = <<>>
        THEN /\ response' = Reply(400, "NO_REJECTED_DOCUMENTS")
             /\ UNCHANGED <<app, metadata, clock>>
        ELSE /\ clock' = clock + 1
             /\ metadata' = [metadata EXCEPT
                               !.reuploadRequests = PushUnlessPending(@, rejectedDocs),
                               !.status = "reupload-requested",
                               !.updatedAt = clock + 1]
             /\ response' = Reply(200, "none")
             /\ UNCHANGED app

\* the deliverables named by the file fields of an upload of edited documents
Deliverables(files) ==
    (IF "edited_cv" \in files THEN {"cv"} ELSE {})
      \cup (IF "edited_cover" \in files THEN {"cover"} ELSE {})

\* Editing.js:474-483  allUploaded of the admin router
AdminAllUploaded(serviceType, editedFiles) ==
    /\ serviceType \in {"cv", "both"} => "cv" \in editedFiles
    /\ serviceType \in {"cover", "both"} => "cover" \in editedFiles

\* Editing.js:416-512  router.post('/application/:email/upload-edited')
AdminUploadEdited(files) ==
    /\ folder' = StoreFiles(folder, files)
    /\ IF ~metadata.exists
       THEN /\ response' = Reply(404, "NOT_FOUND")
            /\ UNCHANGED <<metadata, clock>>
       ELSE LET editedFiles == metadata.editedFiles \cup Deliverables(files)
                allUploaded == AdminAllUploaded(metadata.serviceType, editedFiles)
                c1 == IF "edited_cv" \in files
                      THEN <<Comment("none", "edited-cv")>> ELSE <<>>
                c2 == IF "edited_cover" \in files
                      THEN <<Comment("none", "edited-cover")>> ELSE <<>>
                c3 == IF allUploaded THEN <<Comment("none", "edited-all")>> ELSE <<>>
            IN  /\ clock' = clock + 1
                /\ metadata' = [metadata EXCEPT
                                  !.editedFiles = editedFiles,
                                  !.comments = @ \o c1 \o c2 \o c3,
                                  !.status = IF allUploaded THEN "editing_completed"
                                             ELSE "editing_in_progress",
                                  !.updatedAt = clock + 1]
                /\ response' = Reply(200, "none")

\* Editing.js:530-538  paymentRecord
PaymentRecord(transactionId, serviceType, now) ==
    [transactionId |-> transactionId, serviceType |-> serviceType,
     verifiedAt |-> now, status |-> "verified"]

\* Editing.js:515-575  router.post('/application/:email/verify-payment')
AdminVerifyPayment(transactionId, serviceType) ==
    IF ~metadata.exists
    THEN /\ response' = Reply(404, "NOT_FOUND")
         /\ UNCHANGED <<metadata, clock>>
    ELSE /\ clock' = clock + 1
         /\ metadata' = [metadata EXCEPT
                           !.payments = Append(@, PaymentRecord(transactionId, serviceType,
                                                                clock + 1)),
                           !.paymentStatus = "paid",
                           !.status = IF serviceType = "editing" THEN "editing_paid" ELSE @,
                           !.comments = IF serviceType = "editing"
                                        THEN Append(@, Comment("none", "verify-payment"))
                                        ELSE @,
                           !.updatedAt = clock + 1]
         /\ response' = Reply(200, "none")

\* Editing.js:603-643  router.post('/application/:email/complete-editing')
AdminCompleteEditing ==
    IF ~metadata.exists
    THEN /\ response' = Reply(404, "NOT_FOUND")
         /\ UNCHANGED <<metadata, clock>>
    ELSE /\ clock' = clock + 1
         /\ metadata' = [metadata EXCEPT
                           !.status = "editing_completed",
                           !.comments = Append(@, Comment("none", "complete-editing")),
                           !.updatedAt = clock + 1]
         /\ response' = Reply(200, "none")

(***************************************************************************)
(* The editing-metadata.json of the editing router.                        *)
(***************************************************************************)
\* application.js:1546-1581  editingMetadata of a new editing request
NewEditing(serviceType, files, now) ==
    [ exists |-> TRUE,
      serviceType |-> serviceType,
      originalFiles |-> files,
      editedFiles |-> {},
      status |-> "pending",
      paymentStatus |-> "pending",
      pendingTransaction |-> "none",
      paymentDetails |-> "none",
      comments |-> <<>>,
      createdAt |-> now,
      updatedAt |-> now ]

\* an editing request that is never taken for a second one
RequestExistsNever(e) == FALSE

\* application.js:1540-1544  fs.existsSync(metadataPath)
RequestExists(e) == e.exists

\* application.js:1530-1597  router.post('/request')
EditingRequest(serviceType, files) ==
    IF RequestExists(editing)
    THEN /\ response' = Reply(400, "ALREADY_EXISTS")
         /\ UNCHANGED <<editing, clock>>
    ELSE /\ clock' = clock + 1
         /\ editing' = NewEditing(serviceType, files, clock + 1)
         /\ response' = Reply(200, "none")

\* application.js:1638-1680  router.post('/submit-payment/:email')
SubmitPayment(transactionId) ==
    IF Falsy(transactionId)
    THEN /\ response' = Reply(400, "NO_TRANSACTION_ID")
         /\ UNCHANGED <<editing, clock>>
    ELSE IF ~editing.exists
    THEN /\ response' = Reply(404, "NOT_FOUND")
         /\ UNCHANGED <<editing, clock>>
    ELSE /\ clock' = clock + 1
         /\ editing' = [editing EXCEPT
                          !.pendingTransaction = transactionId,
                          !.comments = Append(@, Comment("none", "submit-payment")),
                          !.updatedAt = clock + 1]
         /\ response' = Reply(200, "none")

\* an upload that is complete as soon as one deliverable is there
AllUploadedWithOne(serviceType, editedFiles) ==
    \/ serviceType \notin {"cv", "cover", "both"}
    \/ serviceType \in {"cv", "both"} /\ "cv" \in editedFiles
    \/ serviceType \in {"cover", "both"} /\ "cover" \in editedFiles

\* application.js:1782-1789  allUploaded of the editing router
AllUploaded(serviceType, editedFiles) ==
    /\ serviceType \in {"cv", "both"} => "cv" \in editedFiles
    /\ serviceType \in {"cover", "both"} => "cover" \in editedFiles

\* application.js:1735-1800  router.post('/upload-edited/:email')
UploadEdited(files) ==
    IF ~editing.exists
    THEN /\ response' = Reply(404, "NOT_FOUND")
         /\ UNCHANGED <<editing, clock>>
    ELSE LET editedFiles == editing.editedFiles \cup Deliverables(files)
             c1 == IF "edited_cv" \in files
                   THEN <<Comment("none", "edited-cv")>> ELSE <<>>
             c2 == IF "edited_cover" \in files
                   THEN <<Comment("none", "edited-cover")>> ELSE <<>>
         IN  /\ clock' = clock + 1
             /\ editing' = [editing EXCEPT
                              !.editedFiles = editedFiles,
                              !.comments = @ \o c1 \o c2,
                              !.status = IF AllUploaded(editing.serviceType, editedFiles)
                                         THEN "editing_completed"
                                         ELSE "editing_in_progress",
                              !.updatedAt = clock + 1]
             /\ response' = Reply(200, "none")

\* application.js:1803-1846  router.post('/verify-payment/:email')
VerifyPayment(transactionId) ==
    IF ~editing.exists
    THEN /\ response' = Reply(404, "NOT_FOUND")
         /\ UNCHANGED <<editing, clock>>
    ELSE /\ clock' = clock + 1
         /\ editing' = [editing EXCEPT
                          !.paymentStatus = "paid",
                          !.status = "editing_paid",
                          !.paymentDetails =
                               [transactionId |->
                                    IF ~Falsy(transactionId) THEN transactionId
                                    ELSE IF editing.pendingTransaction = "none"
                                    THEN "undef"
                                    ELSE editing.pendingTransaction,
                                verifiedAt |-> clock + 1],
                          !.comments = Append(@, Comment("none", "verify-payment")),
                          !.pendingTransaction = "none",
                          !.updatedAt = clock + 1]
         /\ response' = Reply(200, "none")

(***************************************************************************)
(* The download tokens of the editing router.                              *)
(***************************************************************************)
\* application.js:1865  a token lives one hour (60 * 60 * 1000 ms)
TokenLifetime == 1

\* the keys of the Map
Tokens(table) == {d.token : d \in table}

\* application.js:1886  downloadTokens.get(token), for a key of the Map
TokenData(table, token) == CHOOSE d \in table : d.token = token

\* application.js:1867-1875  downloadTokens.set(token, {...})
SetToken(table, data) == {d \in table : d.token # data.token} \cup {data}

\* application.js:1894 and 1903  downloadTokens.delete(token)
DeleteToken(table, token) == {d \in table : d.token # token}

\* a payment check that lets every record pass
PaymentVerifiedAlways(e) == TRUE

\* application.js:1860  metadata.paymentStatus === 'paid'
PaymentVerified(e) == e.paymentStatus = "paid"

\* application.js:1849-1882  router.post('/generate-download-token/:email');
\* crypto.randomBytes(32) gives a token no earlier call has given: the n-th
\* token is written n
GenerateDownloadToken ==
    IF ~editing.exists
    THEN /\ response' = Reply(404, "NOT_FOUND")
         /\ UNCHANGED <<downloadTokens, minted>>
    ELSE IF ~PaymentVerified(editing)
    THEN /\ response' = Reply(403, "PAYMENT_NOT_VERIFIED")
         /\ UNCHANGED <<downloadTokens, minted>>
    ELSE LET token == minted + 1
         IN  /\ minted' = token
             /\ downloadTokens' =
                    SetToken(downloadTokens,
                             [token |-> token,
                              expiresAt |-> time + TokenLifetime,
                              used |-> FALSE,
                              files |-> editing.editedFiles])
             /\ response' = [code |-> 200, error |-> "none", token |-> token]

\* an expiry time that never passes
ExpiredNever(data, now) == FALSE

\* application.js:1889 and 1482  Date.now() > expiresAt
Expired(data, now) == now > data.expiresAt

\* a download that leaves the token in the Map
TokensAfterDownloadKept(table, token) == table

\* application.js:1902-1903  tokenData.used = true; downloadTokens.delete(token)
TokensAfterDownload(table, token) == DeleteToken(table, token)

\* a missing file that costs the token nothing
TokensAfterMissingFileKept(table, token) == table

\* application.js:1893-1895  downloadTokens.delete(token) when the file is missing
TokensAfterMissingFile(table, token) == DeleteToken(table, token)

\* application.js:1885-1911  router.get('/download/:token/:type'); the files
\* of private/editing-uploads/<e-mail> are never removed, so a path the
\* token holds names a file that exists
Download(token, type) ==
    IF \/ token \notin Tokens(downloadTokens)
       \/ TokenData(downloadTokens, token).used
       \/ Expired(TokenData(downloadTokens, token), time)
    THEN /\ response' = Reply(403, "INVALID_TOKEN")
         /\ UNCHANGED downloadTokens
    ELSE IF type \notin TokenData(downloadTokens, token).files
    THEN /\ downloadTokens' = TokensAfterMissingFile(downloadTokens, token)
         /\ response' = Reply(404, "FILE_NOT_FOUND")
    ELSE /\ downloadTokens' = TokensAfterDownload(downloadTokens, token)
         /\ response' = [code |-> 200, error |-> "none", file |-> type]

\* a sweep that finds no token to delete
SweptNone(table, now) == {}

\* application.js:1481-1482  the entries the sweep deletes
Swept(table, now) == {d \in table : Expired(d, now)}

\* application.js:1479-1487  the callback of setInterval; it logs a line for
\* every token it deletes
Sweep ==
    /\ downloadTokens' = downloadTokens \ Swept(downloadTokens, time)
    /\ response' = [code |-> 0, error |-> "none",
                    cleaned |-> Tokens(Swept(downloadTokens, time))]

(***************************************************************************)
(* The upload handler of the application router, split at its await points *)
(* for the runs in which two requests for the same e-mail are handled at   *)
(* the same time.  A handler is idle, or it has loaded the document and    *)
(* waits for mkdir and save.                                               *)
(***************************************************************************)
Handlers == {1, 2}

IdleHandler == [pc |-> "idle", loaded |-> Absent, files |-> {},
                preferredCountry |-> "undef", preferredJob |-> "undef",
                additionalInfo |-> "undef"]

IdleHandlers == [h \in Handlers |-> IdleHandler]

\* application.js:165-216  the field check, findOne and the upload limit, for an
\* e-mail that has a document; what the handler holds when it reaches the await
\* of mkdir is the document as it was loaded
ConcurrentLoad(h, form) ==
    LET existingApplication == app
        uploadCount == existingApplication.uploadCount + 1
    IN  IF ~form.fieldsOk
        THEN /\ response' = Reply(400, "MISSING_FIELDS")
             /\ UNCHANGED handlers
        ELSE IF MaxUploadsExceeded(uploadCount)
        THEN /\ response' = Reply(400, "MAX_UPLOADS_REACHED")
             /\ UNCHANGED handlers
        ELSE /\ handlers' = [handlers EXCEPT ![h] =
                                [pc |-> "loaded", loaded |-> existingApplication,
                                 files |-> form.files,
                                 preferredCountry |-> form.preferredCountry,
                                 preferredJob |-> form.preferredJob,
                                 additionalInfo |-> form.additionalInfo]]
             /\ UNCHANGED response

\* application.js:305-343  what save() sends for the document the handler holds:
\* the paths the handler assigned, computed from the loaded document, and a
\* push to the stored uploadHistory
SavedDocument(stored, held, now) ==
    LET existingApplication == held.loaded
        uploadCount == existingApplication.uploadCount + 1
        jobPreferences == UpdatedPreferences(existingApplication.jobPreferences, held)
    IN  [stored EXCEPT
           !.uploadedFiles = [k \in DocumentFields |->
                IF k \in held.files THEN <<uploadCount>>
                ELSE existingApplication.uploadedFiles[k]],
           !.uploadCount = uploadCount,
           !.uploadHistory = Append(@, held.files),
           !.lastUploadAt = now,
           !.updatedAt = now,
           !.jobPreferences = IF jobPreferences = existingApplication.jobPreferences
                              THEN @ ELSE jobPreferences,
           !.status = StatusAfterReupload(existingApplication.status)]

\* application.js:231-356  mkdir, the files check, the assignments and save().
\* The handler has no check of its own that the document is still the one it
\* loaded.  When it is not, the outcome of save() is the storage layer's: the
\* write is applied over the newer document, or it is refused and the handler
\* answers from its catch block (application.js:357-375).
ConcurrentSave(h) ==
    LET held == handlers[h]
        uploadCount == held.loaded.uploadCount + 1
        now == clock + 1
    IN  /\ handlers' = [handlers EXCEPT ![h] = IdleHandler]
        /\ IF held.files = {}
           THEN /\ response' = Reply(400, "NO_FILES")
                /\ UNCHANGED <<app, clock, accepted>>
           ELSE \/ /\ app' = SavedDocument(app, held, now)
                   /\ clock' = now
                   /\ response' = UploadReply(uploadCount)
                   /\ accepted' = accepted + 1
                \/ /\ app # held.loaded
                   /\ response' = Reply(500, "UPLOAD_FAILED")
                   /\ UNCHANGED <<app, clock, accepted>>

(***************************************************************************)
(* The state machines.                                                     *)
(***************************************************************************)
\* the application router starts with an empty collection and no metadata.json
Init ==
    /\ app = Absent
    /\ metadata = Absent
    /\ folder = NoFolder
    /\ editing = Absent
    /\ clock = 0
    /\ request = NoRequest
    /\ response = NoResponse
    /\ downloadTokens = {}
    /\ minted = 0
    /\ time = 0
    /\ history = <<>>
    /\ handlers = IdleHandlers
    /\ accepted = 0

\* the admin router starts on the metadata.json of a new application
InitAdmin ==
    /\ app = Absent
    /\ \E optional \in SUBSET OptionalDocs :
           /\ metadata = NewMetadata(RequiredDocs \cup optional)
           /\ folder = [exists |-> TRUE, files |-> RequiredDocs \cup optional]
    /\ editing = Absent
    /\ clock = 0
    /\ request = NoRequest
    /\ response = NoResponse
    /\ downloadTokens = {}
    /\ minted = 0
    /\ time = 0
    /\ history = <<>>
    /\ handlers = IdleHandlers
    /\ accepted = 0

\* the application router
UploadStep ==
    /\ clock < MaxClock
    /\ \E form \in UploadInputs :
           request' = [op |-> "upload", form |-> form] /\ Upload(form)
    /\ UNCHANGED editing
    /\ UNCHANGED otherVars

MongoReviewStep ==
    /\ clock < MaxClock
    /\ \E documentType \in ReviewKindInputs, status \in DecisionInputs :
           /\ request' = [op |-> "review", documentType |-> documentType, status |-> status]
           /\ MongoReview(documentType, status)
    /\ UNCHANGED <<folder, editing>>
    /\ UNCHANGED otherVars

MongoSetStatusStep ==
    /\ clock < MaxClock
    /\ \E status \in StatusInputs :
           request' = [op |-> "status", status |-> status] /\ MongoSetStatus(status)
    /\ UNCHANGED <<folder, editing>>
    /\ UNCHANGED otherVars

MongoCommentStep ==
    /\ clock < MaxClock
    /\ request' = [op |-> "comment"]
    /\ MongoComment
    /\ UNCHANGED <<folder, editing>>
    /\ UNCHANGED otherVars

MongoRequestReuploadStep ==
    /\ clock < MaxClock
    /\ \E documents \in ReuploadInputs :
           /\ request' = [op |-> "request-reupload", documents |-> documents]
           /\ MongoRequestReupload(documents)
    /\ UNCHANGED <<folder, editing>>
    /\ UNCHANGED otherVars

ClientStatusStep ==
    /\ request' = [op |-> "client-status"]
    /\ ClientStatus
    /\ UNCHANGED editing
    /\ UNCHANGED otherVars

MongoDeleteStep ==
    /\ clock < MaxClock
    /\ request' = [op |-> "delete"]
    /\ MongoDelete
    /\ UNCHANGED editing
    /\ UNCHANGED otherVars

NextApplication ==
    \/ UploadStep
    \/ MongoReviewStep
    \/ MongoSetStatusStep
    \/ MongoCommentStep
    \/ MongoRequestReuploadStep
    \/ ClientStatusStep
    \/ MongoDeleteStep

SpecApplication == Init /\ [][NextApplication]_vars

\* the application router when the applicant uploads and the admin only reviews
RoundUploadStep ==
    /\ clock < MaxRoundClock
    /\ \E form \in UploadInputs :
           request' = [op |-> "upload", form |-> form] /\ Upload(form)
    /\ UNCHANGED editing
    /\ UNCHANGED otherVars

RoundReviewStep ==
    /\ clock < MaxRoundClock
    /\ \E documentType \in RoundKindInputs, status \in DecisionInputs :
           /\ request' = [op |-> "review", documentType |-> documentType, status |-> status]
           /\ MongoReview(documentType, status)
    /\ UNCHANGED <<folder, editing>>
    /\ UNCHANGED otherVars

RoundSyncStep ==
    /\ clock < MaxRoundClock
    /\ request' = [op |-> "sync"]
    /\ MongoSync
    /\ UNCHANGED <<folder, editing>>
    /\ UNCHANGED otherVars

NextReviewRound == RoundUploadStep \/ RoundReviewStep \/ RoundSyncStep

SpecReviewRound == Init /\ [][NextReviewRound]_vars

\* the application router when the applicant sends the four required documents
\* or the cv alone, and the admin approves required documents or rejects the cv
ScenarioUploadStep ==
    /\ clock < MaxScenarioClock
    /\ \E form \in {f \in UploadInputs :
                        /\ f.fieldsOk
                        /\ \/ f.files = RequiredDocs
                           \/ f.files = {"cv"} /\ f.preferredCountry = "undef"} :
           request' = [op |-> "upload", form |-> form] /\ Upload(form)
    /\ UNCHANGED editing
    /\ history' = IF clock' # clock THEN Append(history, request') ELSE history
    /\ UNCHANGED raceVars
    /\ UNCHANGED tokenVars

ScenarioReviewStep ==
    /\ clock < MaxScenarioClock
    /\ \E documentType \in RequiredDocs, status \in {"approved", "rejected"} :
           /\ status = "rejected" => documentType = "cv"
           /\ request' = [op |-> "review", documentType |-> documentType, status |-> status]
           /\ MongoReview(documentType, status)
    /\ UNCHANGED <<folder, editing>>
    /\ history' = IF clock' # clock THEN Append(history, request') ELSE history
    /\ UNCHANGED raceVars
    /\ UNCHANGED tokenVars

NextScenario == ScenarioUploadStep \/ ScenarioReviewStep

SpecScenario == Init /\ [][NextScenario]_vars

\* the admin router
AdminReviewStep ==
    /\ clock < MaxAdminClock
    /\ \E documentType \in ReviewKindInputs, status \in DecisionInputs :
           /\ request' = [op |-> "review", documentType |-> documentType, status |-> status]
           /\ AdminReview(documentType, status)
    /\ UNCHANGED <<folder, editing>>
    /\ UNCHANGED otherVars

AdminSetStatusStep ==
    /\ clock < MaxAdminClock
    /\ \E status \in StatusInputs, notes \in BOOLEAN :
           /\ request' = [op |-> "status", status |-> status, notes |-> notes]
           /\ AdminSetStatus(status, notes)
    /\ UNCHANGED <<folder, editing>>
    /\ UNCHANGED otherVars

AdminCommentStep ==
    /\ clock < MaxAdminClock
    /\ request' = [op |-> "comment"]
    /\ AdminComment
    /\ UNCHANGED <<folder, editing>>
    /\ UNCHANGED otherVars

AdminRequestReuploadStep ==
    /\ clock < MaxAdminClock
    /\ \E documents \in ReuploadInputs :
           /\ request' = [op |-> "request-reupload", documents |-> documents]
           /\ AdminRequestReupload(documents)
    /\ UNCHANGED <<folder, editing>>
    /\ UNCHANGED otherVars

NextAdmin ==
    \/ AdminReviewStep
    \/ AdminSetStatusStep
    \/ AdminCommentStep
    \/ AdminRequestReuploadStep

SpecAdmin == InitAdmin /\ [][NextAdmin]_vars

\* the two review handlers side by side: the Mongoose document and the
\* metadata.json of one new application with the four required documents
InitPair ==
    /\ app = NewApplication(RequiredDocs,
                            [preferredCountry |-> "Germany", preferredJob |-> "Nurses",
                             additionalInfo |-> "note"], 0)
    /\ metadata = NewMetadata(RequiredDocs)
    /\ folder = [exists |-> TRUE, files |-> RequiredDocs]
    /\ editing = Absent
    /\ clock = 0
    /\ request = NoRequest
    /\ response = NoResponse
    /\ downloadTokens = {}
    /\ minted = 0
    /\ time = 0
    /\ history = <<>>
    /\ handlers = IdleHandlers
    /\ accepted = 0

\* a review event reaches the application router
PairMongoReviewStep ==
    /\ clock < MaxPairClock
    /\ request.op # "review"
    /\ \E documentType \in ReviewKindInputs, status \in DecisionInputs :
           /\ request' = [op |-> "review", documentType |-> documentType, status |-> status]
           /\ MongoReview(documentType, status)
    /\ UNCHANGED <<folder, editing>>
    /\ UNCHANGED otherVars

\* the same event reaches the admin router
PairAdminReviewStep ==
    /\ request.op = "review"
    /\ request' = [op |-> "admin-review", documentType |-> request.documentType,
                   status |-> request.status]
    /\ AdminReview(request.documentType, request.status)
    /\ UNCHANGED <<folder, editing>>
    /\ UNCHANGED otherVars

NextPair == PairMongoReviewStep \/ PairAdminReviewStep

SpecPair == InitPair /\ [][NextPair]_vars

\* the editing service starts without editing request, on the metadata.json
\* of an application that may name a service type
InitEditing ==
    /\ app = Absent
    /\ \E serviceType \in ServiceTypeInputs :
           metadata = [NewMetadata(RequiredDocs) EXCEPT !.serviceType = serviceType]
    /\ folder = [exists |-> TRUE, files |-> RequiredDocs]
    /\ editing = Absent
    /\ clock = 0
    /\ request = NoRequest
    /\ response = NoResponse
    /\ downloadTokens = {}
    /\ minted = 0
    /\ time = 0
    /\ history = <<>>
    /\ handlers = IdleHandlers
    /\ accepted = 0

EditingRequestStep ==
    /\ clock < MaxEditingClock
    /\ \E serviceType \in ServiceTypeInputs, files \in {{"cv"}, {"cv", "cover"}} :
           /\ request' = [op |-> "editing-request", serviceType |-> serviceType,
                          files |-> files]
           /\ EditingRequest(serviceType, files)
    /\ UNCHANGED <<app, metadata, folder>>
    /\ UNCHANGED otherVars

SubmitPaymentStep ==
    /\ clock < MaxEditingClock
    /\ \E transactionId \in TransactionInputs :
           /\ request' = [op |-> "submit-payment", transactionId |-> transactionId]
           /\ SubmitPayment(transactionId)
    /\ UNCHANGED <<app, metadata, folder>>
    /\ UNCHANGED otherVars

UploadEditedStep ==
    /\ clock < MaxEditingClock
    /\ \E files \in EditedFilesInputs :
           /\ request' = [op |-> "upload-edited", files |-> files]
           /\ UploadEdited(files)
    /\ UNCHANGED <<app, metadata, folder>>
    /\ UNCHANGED otherVars

VerifyPaymentStep ==
    /\ clock < MaxEditingClock
    /\ \E transactionId \in TransactionInputs :
           /\ request' = [op |-> "verify-payment", transactionId |-> transactionId]
           /\ VerifyPayment(transactionId)
    /\ UNCHANGED <<app, metadata, folder>>
    /\ UNCHANGED otherVars

AdminUploadEditedStep ==
    /\ clock < MaxEditingClock
    /\ \E files \in EditedFilesInputs :
           /\ request' = [op |-> "admin-upload-edited", files |-> files]
           /\ AdminUploadEdited(files)
    /\ UNCHANGED <<app, editing>>
    /\ UNCHANGED otherVars

AdminVerifyPaymentStep ==
    /\ clock < MaxEditingClock
    /\ \E serviceType \in PaidServiceInputs :
           /\ request' = [op |-> "admin-verify-payment", transactionId |-> "T1",
                          serviceType |-> serviceType]
           /\ AdminVerifyPayment("T1", serviceType)
    /\ UNCHANGED <<app, folder, editing>>
    /\ UNCHANGED otherVars

AdminCompleteEditingStep ==
    /\ clock < MaxEditingClock
    /\ request' = [op |-> "complete-editing"]
    /\ AdminCompleteEditing
    /\ UNCHANGED <<app, folder, editing>>
    /\ UNCHANGED otherVars

NextEditing ==
    \/ EditingRequestStep
    \/ SubmitPaymentStep
    \/ UploadEditedStep
    \/ VerifyPaymentStep
    \/ AdminUploadEditedStep
    \/ AdminVerifyPaymentStep
    \/ AdminCompleteEditingStep

SpecEditing == InitEditing /\ [][NextEditing]_vars

\* the editing service with its download tokens: a request for both services,
\* the edited documents, the verification, and the tokens
PaidRequestStep ==
    /\ clock < MaxDownloadClock
    /\ request' = [op |-> "editing-request", serviceType |-> "both",
                   files |-> {"cv", "cover"}]
    /\ EditingRequest("both", {"cv", "cover"})
    /\ UNCHANGED <<app, metadata, folder>>
    /\ UNCHANGED otherVars

PaidUploadEditedStep ==
    /\ clock < MaxDownloadClock
    /\ \E files \in {{"edited_cv"}, {"edited_cv", "edited_cover"}} :
           /\ request' = [op |-> "upload-edited", files |-> files]
           /\ UploadEdited(files)
    /\ UNCHANGED <<app, metadata, folder>>
    /\ UNCHANGED otherVars

PaidVerifyPaymentStep ==
    /\ clock < MaxDownloadClock
    /\ request' = [op |-> "verify-payment", transactionId |-> "T1"]
    /\ VerifyPayment("T1")
    /\ UNCHANGED <<app, metadata, folder>>
    /\ UNCHANGED otherVars

GenerateDownloadTokenStep ==
    /\ minted < MaxTokens
    /\ request' = [op |-> "generate-download-token"]
    /\ GenerateDownloadToken
    /\ UNCHANGED <<app, metadata, folder, editing, clock, time, history, handlers, accepted>>

DownloadStep ==
    /\ \E token \in 1..MaxTokens, type \in {"cv", "cover"} :
           /\ request' = [op |-> "download", token |-> token, type |-> type]
           /\ Download(token, type)
    /\ UNCHANGED <<app, metadata, folder, editing, clock, minted, time, history, handlers, accepted>>

SweepStep ==
    /\ request' = [op |-> "sweep"]
    /\ Sweep
    /\ UNCHANGED <<app, metadata, folder, editing, clock, minted, time, history, handlers, accepted>>

\* an hour passes
TickStep ==
    /\ time < MaxTime
    /\ time' = time + 1
    /\ request' = [op |-> "tick"]
    /\ response' = NoResponse
    /\ UNCHANGED <<app, metadata, folder, editing, clock, downloadTokens, minted, history, handlers, accepted>>

NextDownload ==
    \/ PaidRequestStep
    \/ PaidUploadEditedStep
    \/ PaidVerifyPaymentStep
    \/ GenerateDownloadTokenStep
    \/ DownloadStep
    \/ SweepStep
    \/ TickStep

SpecDownload == Init /\ [][NextDownload]_vars

\* the same with the timer of setInterval firing again and again (every hour,
\* application.js:1487) and the time going on
SpecDownloadFair ==
    SpecDownload /\ WF_vars(SweepStep) /\ WF_vars(TickStep)

(***************************************************************************)
(* The upload limit.                                                       *)
(***************************************************************************)
\* C1: the uploadCount of an application is always between 1 and 3: it is 1
\* when the application is created, and afterwards it changes only by an
\* accepted upload, which adds one
C1_UploadCountBetween1And3 ==
    /\ [](app.exists => app.uploadCount \in 1..3)
    /\ [][ /\ (~app.exists /\ app'.exists) => app'.uploadCount = 1
           /\ (app.exists /\ app'.exists /\ app'.uploadCount # app.uploadCount) =>
                 /\ request'.op = "upload"
                 /\ response'.code = 200
                 /\ app'.uploadCount = app.uploadCount + 1 ]_vars

\* the third upload of an application has been accepted
C1_Witness ==
    /\ app.exists
    /\ app.uploadCount = 3
    /\ request.op = "upload"
    /\ response.code = 200

C3_ReuploadResetsStatus ==
    [][ (app.exists /\ request'.op = "upload" /\ response'.code = 200) =>
          app'.status = "received" ]_vars

\* a re-upload has been accepted right after the admin had set another status
C3_Witness ==
    /\ app.exists
    /\ app.uploadCount = 2
    /\ request.op = "upload"
    /\ response.code = 200
    /\ app.status = "received"
    /\ app.comments # <<>>
    /\ app.comments[Len(app.comments)].by = "status"
    /\ app.updatedAt = app.lastUploadAt

(***************************************************************************)
(* Reviews and re-upload requests.  Each statement is made of the          *)
(* application router (app) and of the admin router (metadata).            *)
(***************************************************************************)
\* C4: when no document is rejected, a review that rejects a required kind k
\* makes the status changes-required and appends exactly one re-upload
\* request, pending, whose documents are exactly {k}
C4_RejectionOpensRequest ==
    [][ \A k \in RequiredDocs :
          ( /\ request'.op = "review"
            /\ request'.documentType = k
            /\ request'.status = "rejected"
            /\ response'.code = 200 ) =>
          /\ ( /\ app.exists
               /\ \A d \in DocumentFields : app.documentReviews[d].status # "rejected" ) =>
                 /\ app'.status = "changes-required"
                 /\ Len(app'.reuploadRequests) = Len(app.reuploadRequests) + 1
                 /\ SubSeq(app'.reuploadRequests, 1, Len(app.reuploadRequests))
                       = app.reuploadRequests
                 /\ app'.reuploadRequests[Len(app'.reuploadRequests)].status = "pending"
                 /\ LET docs == app'.reuploadRequests[Len(app'.reuploadRequests)].documents
                    IN  { docs[i] : i \in 1..Len(docs) } = {k}
          /\ ( /\ metadata.exists
               /\ ~HasRejections(metadata.documentReviews) ) =>
                 /\ metadata'.status = "changes-required"
                 /\ Len(metadata'.reuploadRequests) = Len(metadata.reuploadRequests) + 1
                 /\ SubSeq(metadata'.reuploadRequests, 1, Len(metadata.reuploadRequests))
                       = metadata.reuploadRequests
                 /\ metadata'.reuploadRequests[Len(metadata'.reuploadRequests)].status
                       = "pending"
                 /\ LET docs ==
                          metadata'.reuploadRequests[Len(metadata'.reuploadRequests)].documents
                    IN  { docs[i] : i \in 1..Len(docs) } = {k} ]_vars

\* C5: a review after which the four required kinds, and every optional kind
\* that has files, are approved makes the status documents-approved, and every
\* re-upload request that was pending is completed
C5_AllApprovedCompletesRequests ==
    [][ (request'.op = "review" /\ response'.code = 200) =>
          /\ ( /\ app.exists
               /\ \A k \in RequiredDocs : app'.documentReviews[k].status = "approved"
               /\ \A k \in OptionalDocs :
                     app'.uploadedFiles[k] # <<>> =>
                         app'.documentReviews[k].status = "approved" ) =>
                 /\ app'.status = "documents-approved"
                 /\ Len(app'.reuploadRequests) = Len(app.reuploadRequests)
                 /\ \A i \in 1..Len(app.reuploadRequests) :
                       app.reuploadRequests[i].status = "pending" =>
                           app'.reuploadRequests[i].status = "completed"
          /\ ( /\ metadata.exists
               /\ AllRequiredApproved(metadata'.documentReviews)
               /\ OptionalReviewed(metadata'.uploadedFiles, metadata'.documentReviews) ) =>
                 /\ metadata'.status = "documents-approved"
                 /\ Len(metadata'.reuploadRequests) = Len(metadata.reuploadRequests)
                 /\ \A i \in 1..Len(metadata.reuploadRequests) :
                       metadata.reuploadRequests[i].status = "pending" =>
                           metadata'.reuploadRequests[i].status = "completed" ]_vars

\* C6: after every review, a rejected document means status changes-required
C6_RejectedMeansChangesRequired ==
    [][ (request'.op = "review" /\ response'.code = 200) =>
          /\ ( /\ app.exists
               /\ \E k \in DocumentFields : app'.documentReviews[k].status = "rejected" ) =>
                 app'.status = "changes-required"
          /\ ( /\ metadata.exists
               /\ HasRejections(metadata'.documentReviews) ) =>
                 metadata'.status = "changes-required" ]_vars

\* C7: a review after which no document is rejected and some required kind is
\* not approved makes the status review, unless the status was
\* changes-required, which it then stays
C7_UnfinishedReviewGivesReview ==
    [][ (request'.op = "review" /\ response'.code = 200) =>
          /\ ( /\ app.exists
               /\ \A k \in DocumentFields : app'.documentReviews[k].status # "rejected"
               /\ \E k \in RequiredDocs : app'.documentReviews[k].status # "approved" ) =>
                 app'.status = IF app.status = "changes-required"
                               THEN "changes-required" ELSE "review"
          /\ ( /\ metadata.exists
               /\ ~HasRejections(metadata'.documentReviews)
               /\ ~AllRequiredApproved(metadata'.documentReviews) ) =>
                 metadata'.status = IF metadata.status = "changes-required"
                                    THEN "changes-required" ELSE "review" ]_vars

\* C8: both records of the rejection count of a kind k (the entry of k in
\* documentReviews and the rejection-count map) never decrease, grow by one
\* with every rejected decision for k and keep their value with an approved one
C8_RejectionCountGrowsByOne ==
    [][ \A k \in DocumentFields :
          LET reviewed(status) == /\ request'.op = "review"
                                  /\ request'.documentType = k
                                  /\ request'.status = status
                                  /\ response'.code = 200
          IN  /\ (app.exists /\ app'.exists) =>
                   LET map == app.documentRejectionCount[k]
                       mapAfter == app'.documentRejectionCount[k]
                       entry == app.documentReviews[k].rejectionCount
                       entryAfter == app'.documentReviews[k].rejectionCount
                   IN  /\ mapAfter >= map
                       /\ entryAfter >= entry
                       /\ reviewed("rejected") => (mapAfter = map + 1 /\ entryAfter = entry + 1)
                       /\ reviewed("approved") => (mapAfter = map /\ entryAfter = entry)
              /\ (metadata.exists /\ metadata'.exists) =>
                   LET map == metadata.documentRejectionCount[k]
                       mapAfter == metadata'.documentRejectionCount[k]
                       entry == ReviewOf(metadata.documentReviews, k).rejectionCount
                       entryAfter == ReviewOf(metadata'.documentReviews, k).rejectionCount
                   IN  /\ mapAfter >= map
                       /\ entryAfter >= entry
                       /\ reviewed("rejected") => (mapAfter = map + 1 /\ entryAfter = entry + 1)
                       /\ reviewed("approved") => (mapAfter = map /\ entryAfter = entry) ]_vars

\* C9: a re-upload request none of whose documents is rejected fails with the
\* invalid-request error and changes nothing
C9_ReuploadNeedsRejectedDocument ==
    [][ request'.op = "request-reupload" =>
          /\ ( /\ app.exists
               /\ \A i \in 1..Len(request'.documents) :
                     app.documentReviews[request'.documents[i]].status # "rejected" ) =>
                 /\ response'.code = 400
                 /\ app' = app
          /\ ( /\ metadata.exists
               /\ \A i \in 1..Len(request'.documents) :
                     ReviewOf(metadata.documentReviews, request'.documents[i]).status
                        # "rejected" ) =>
                 /\ response'.code = 400
                 /\ metadata' = metadata ]_vars

\* C10: no two pending re-upload requests have the same set of documents
C10_OnePendingRequestPerSet ==
    LET DocumentSet(req) == { req.documents[i] : i \in 1..Len(req.documents) }
        OnePerSet(requests) ==
            \A i, j \in 1..Len(requests) :
                ( /\ i < j
                  /\ requests[i].status = "pending"
                  /\ requests[j].status = "pending" ) =>
                DocumentSet(requests[i]) # DocumentSet(requests[j])
    IN  /\ app.exists => OnePerSet(app.reuploadRequests)
        /\ metadata.exists => OnePerSet(metadata.reuploadRequests)

\* C11: a review never removes a re-upload request: the requests it finds
\* stay in the sequence, in place, and a pending one none of whose documents
\* is rejected after the review is kept as completed, with its completion time
C11_ReviewKeepsRequests ==
    [][ (metadata.exists /\ request'.op = "review" /\ response'.code = 200) =>
          /\ Len(metadata'.reuploadRequests) >= Len(metadata.reuploadRequests)
          /\ \A i \in 1..Len(metadata.reuploadRequests) :
                LET old == metadata.reuploadRequests[i]
                    new == metadata'.reuploadRequests[i]
                IN  /\ { new.documents[j] : j \in 1..Len(new.documents) }
                          = { old.documents[j] : j \in 1..Len(old.documents) }
                    /\ ( /\ old.status = "pending"
                         /\ \A j \in 1..Len(old.documents) :
                               ReviewOf(metadata'.documentReviews, old.documents[j]).status
                                  # "rejected" ) =>
                           (new.status = "completed" /\ new.completedAt = clock') ]_vars

(***************************************************************************)
(* Status transitions.                                                     *)
(***************************************************************************)
\* C12: a status request for documents-approved fails with the precondition
\* error and changes nothing unless the four required kinds are approved, and
\* when it is accepted no re-upload request is left pending
C12_ApprovalNeedsApprovedDocuments ==
    [][ (request'.op = "status" /\ request'.status = "documents-approved") =>
          /\ app.exists =>
               IF \A k \in RequiredDocs : app.documentReviews[k].status = "approved"
               THEN response'.code = 200 =>
                        \A i \in 1..Len(app'.reuploadRequests) :
                            app'.reuploadRequests[i].status # "pending"
               ELSE response'.code = 400 /\ app' = app
          /\ metadata.exists =>
               IF AllRequiredApproved(metadata.documentReviews)
               THEN response'.code = 200 =>
                        \A i \in 1..Len(metadata'.reuploadRequests) :
                            metadata'.reuploadRequests[i].status # "pending"
               ELSE response'.code = 400 /\ metadata' = metadata ]_vars

C14_CreationNeedsAllFields ==
    [][ (~app.exists /\ request'.op = "upload") =>
          LET form == request'.form
              complete == /\ form.fieldsOk
                          /\ ~Falsy(form.preferredCountry)
                          /\ ~Falsy(form.preferredJob)
          IN  /\ app'.exists => complete
              /\ ~complete => (response'.code = 400 /\ ~app'.exists)
              /\ app'.exists => (app'.uploadCount = 1 /\ app'.status = "received") ]_vars

\* an upload with a preferred country and no preferred job has been refused,
\* and no application exists
C14_Witness ==
    /\ ~app.exists
    /\ request.op = "upload"
    /\ request.form.fieldsOk
    /\ request.form.preferredCountry = "Canada"
    /\ Falsy(request.form.preferredJob)
    /\ response = Reply(400, "MISSING_PREFERENCES")

\* C15: the file records of every kind are append-only: after an accepted
\* upload the records a kind had before are still there, in order, at the
\* head of its sequence
C15_DocumentSlotsAppendOnly ==
    [][ (app.exists /\ request'.op = "upload" /\ response'.code = 200) =>
          \A k \in DocumentFields :
              /\ Len(app'.uploadedFiles[k]) >= Len(app.uploadedFiles[k])
              /\ SubSeq(app'.uploadedFiles[k], 1, Len(app.uploadedFiles[k]))
                    = app.uploadedFiles[k] ]_vars

\* C16: an accepted upload for an existing application leaves alone the file
\* records of the kinds that are not in the form, the job preferences that
\* are not sent, the reviews, the rejection counts, the re-upload requests
\* and the comments
C16_ReuploadFrame ==
    [][ (app.exists /\ request'.op = "upload" /\ response'.code = 200) =>
          LET form == request'.form
          IN  /\ \A k \in DocumentFields \ form.files :
                    app'.uploadedFiles[k] = app.uploadedFiles[k]
              /\ \A f \in {"preferredCountry", "preferredJob", "additionalInfo"} :
                    form[f] = "undef" => app'.jobPreferences[f] = app.jobPreferences[f]
              /\ app'.documentReviews = app.documentReviews
              /\ app'.documentRejectionCount = app.documentRejectionCount
              /\ app'.reuploadRequests = app.reuploadRequests
              /\ app'.comments = app.comments
              /\ app'.createdAt = app.createdAt ]_vars

\* a re-upload that sends a preferred country only has been accepted for an
\* application that has a comment and a rejected document
C16_Witness ==
    /\ app.exists
    /\ request.op = "upload"
    /\ response.code = 200
    /\ app.uploadCount = 2
    /\ request.form.preferredCountry = "Canada"
    /\ request.form.additionalInfo = "undef"
    /\ app.jobPreferences = [preferredCountry |-> "Canada", preferredJob |-> "Nurses",
                             additionalInfo |-> "note"]
    /\ app.comments # <<>>
    /\ app.documentRejectionCount["passport"] = 1
    /\ app.uploadedFiles["passport"] = <<1>>
    /\ app.uploadedFiles["cv"] = <<2>>

\* C17: maxUploadsReached is true exactly when uploadCount is 3 or more, in
\* the stored application, in the answer to an upload and in the client
\* status view
C17_MaxUploadsReachedFlag ==
    /\ [](app.exists => (app.maxUploadsReached <=> app.uploadCount >= 3))
    /\ [][ /\ (request'.op = "upload" /\ response'.code = 200) =>
                 (response'.maxUploadsReached <=> app'.uploadCount >= 3)
           /\ (request'.op = "client-status" /\ response'.code = 200) =>
                 (response'.maxUploadsReached <=> app'.uploadCount >= 3) ]_vars

\* C18: the comments of the client status view are exactly the comments the
\* admin added with the comment operation, in order
C18_ClientSeesAdminComments ==
    [][ (request'.op = "client-status" /\ response'.code = 200) =>
          response'.comments = SelectSeq(app.comments, LAMBDA c : c.by = "comment") ]_vars

C20_CompletedIffAllDeliverables ==
    [][ /\ (request'.op = "upload-edited" /\ response'.code = 200) =>
              LET required == CASE editing'.serviceType = "cv" -> {"cv"}
                                [] editing'.serviceType = "cover" -> {"cover"}
                                [] editing'.serviceType = "both" -> {"cv", "cover"}
                                [] OTHER -> {}
              IN  /\ editing'.editedFiles = editing.editedFiles
                                               \cup Deliverables(request'.files)
                  /\ editing'.status = IF required \subseteq editing'.editedFiles
                                       THEN "editing_completed"
                                       ELSE "editing_in_progress"
        /\ (request'.op = "admin-upload-edited" /\ response'.code = 200) =>
              LET required == CASE metadata'.serviceType = "cv" -> {"cv"}
                                [] metadata'.serviceType = "cover" -> {"cover"}
                                [] metadata'.serviceType = "both" -> {"cv", "cover"}
                                [] OTHER -> {}
              IN  /\ metadata'.editedFiles = metadata.editedFiles
                                                \cup Deliverables(request'.files)
                  /\ metadata'.status = IF required \subseteq metadata'.editedFiles
                                        THEN "editing_completed"
                                        ELSE "editing_in_progress" ]_vars

\* the second of two uploads has brought the edited cover letter of a request
\* for both services, whose edited cv came with the first
C20_Witness ==
    /\ editing.exists
    /\ editing.serviceType = "both"
    /\ request.op = "upload-edited"
    /\ request.files = {"edited_cover"}
    /\ response = Reply(200, "none")
    /\ editing.editedFiles = {"cv", "cover"}
    /\ editing.status = "editing_completed"
    /\ Len(editing.comments) = 2

(***************************************************************************)
(* Payment verification.                                                   *)
(***************************************************************************)
\* C21: the status of a record goes from another value to editing_paid only
\* in a verify-payment operation: no upload, upload of edited documents,
\* complete-editing, submit-payment or status operation puts it there
C21_OnlyVerifyPaymentPays ==
    [][ /\ ( /\ editing.exists /\ editing'.exists
             /\ editing.status # "editing_paid"
             /\ editing'.status = "editing_paid" )
              => request'.op = "verify-payment"
        /\ ( /\ metadata.exists /\ metadata'.exists
             /\ metadata.status # "editing_paid"
             /\ metadata'.status = "editing_paid" )
              => request'.op = "admin-verify-payment"
        /\ ( /\ app.exists /\ app'.exists
             /\ app.status # "editing_paid"
             /\ app'.status = "editing_paid" )
              => request'.op \in {"verify-payment", "admin-verify-payment"} ]_vars

\* C22: a verify-payment on an editing record without pending transaction is
\* refused and leaves the record as it was, also right after a verification
C22_VerifyNeedsPendingTransaction ==
    [][ ( /\ request'.op = "verify-payment"
          /\ editing.exists
          /\ editing.pendingTransaction = "none" )
           => /\ response'.code \in 400..499
              /\ editing' = editing ]_vars

(***************************************************************************)
(* Download tokens.                                                        *)
(***************************************************************************)
\* C23: generate-download-token on an editing record whose paymentStatus is
\* pending answers 403 and adds nothing to the token table; a token enters
\* the table only in a generate-download-token on a record whose paymentStatus
\* is paid, so every token of the table belongs to a record that is paid
C23_TokenNeedsVerifiedPayment ==
    /\ [](downloadTokens # {} => (editing.exists /\ editing.paymentStatus = "paid"))
    /\ [][ /\ ( /\ request'.op = "generate-download-token"
                /\ editing.exists
                /\ editing.paymentStatus = "pending" )
                 => /\ response'.code = 403
                    /\ downloadTokens' = downloadTokens
           /\ (Tokens(downloadTokens') \ Tokens(downloadTokens) # {})
                 => /\ request'.op = "generate-download-token"
                    /\ editing.exists
                    /\ editing.paymentStatus = "paid" ]_vars

\* a token has been refused to a record with the edited documents whose
\* payment is not verified
C23_Witness ==
    /\ request.op = "generate-download-token"
    /\ response = Reply(403, "PAYMENT_NOT_VERIFIED")
    /\ editing.exists
    /\ editing.paymentStatus = "pending"
    /\ editing.status = "editing_completed"
    /\ downloadTokens = {}

\* C24: a download that serves a file presents a token of the table and
\* removes it; a generated token that has left the table never comes back; a
\* download that presents a token outside the table is refused as invalid: so
\* a token serves at most one download
C24_TokenServesOnce ==
    [][ /\ (request'.op = "download" /\ response'.code = 200)
              => /\ request'.token \in Tokens(downloadTokens)
                 /\ request'.token \notin Tokens(downloadTokens')
        /\ \A token \in 1..minted :
              token \notin Tokens(downloadTokens) => token \notin Tokens(downloadTokens')
        /\ (request'.op = "download" /\ request'.token \notin Tokens(downloadTokens))
              => response' = Reply(403, "INVALID_TOKEN") ]_vars

\* within the hour of the verification, a generated token of a record with
\* both edited documents has left the table, which takes a download that
\* served a file, and a download that presents it again is refused
C24_Witness ==
    /\ time = 0
    /\ clock = 3
    /\ editing.status = "editing_paid"
    /\ editing.editedFiles = {"cv", "cover"}
    /\ request.op = "download"
    /\ request.token \in 1..minted
    /\ request.token \notin Tokens(downloadTokens)
    /\ response = Reply(403, "INVALID_TOKEN")

\* C25: a download that presents a token whose expiry time has passed serves
\* no file, whether the token is still in the table or the sweep has removed
\* it: it is refused as invalid or expired
C25_ExpiredTokenServesNothing ==
    [][ ( /\ request'.op = "download"
          /\ \/ request'.token \notin Tokens(downloadTokens)
             \/ \E d \in downloadTokens : d.token = request'.token /\ time > d.expiresAt )
           => /\ response' = Reply(403, "INVALID_TOKEN")
              /\ downloadTokens' = downloadTokens ]_vars

\* a download has presented a token of the table after its expiry time, before
\* any sweep, and has been refused
C25_Witness ==
    /\ request.op = "download"
    /\ \E d \in downloadTokens :
           /\ d.token = request.token
           /\ time > d.expiresAt
           /\ request.type \in d.files
    /\ response = Reply(403, "INVALID_TOKEN")

(***************************************************************************)
(* Editing requests.                                                       *)
(***************************************************************************)
\* C26: an editing request for an e-mail that has an editing record is refused
\* with the already-exists error and leaves the record as it was; a request is
\* accepted only when the e-mail has no record, so there is never a second one
C26_SecondRequestRefused ==
    [][ /\ (request'.op = "editing-request" /\ editing.exists)
              => /\ response' = Reply(400, "ALREADY_EXISTS")
                 /\ editing' = editing
        /\ (request'.op = "editing-request" /\ response'.code = 200)
              => /\ ~editing.exists
                 /\ editing'.exists ]_vars

\* a second request, for another service and with other files, has been
\* refused to an e-mail whose record is paid
C26_Witness ==
    /\ request.op = "editing-request"
    /\ response = Reply(400, "ALREADY_EXISTS")
    /\ editing.exists
    /\ editing.serviceType # request.serviceType
    /\ editing.originalFiles # request.files
    /\ editing.paymentStatus = "paid"
    /\ editing.status = "editing_paid"

(***************************************************************************)
(* Payments.                                                               *)
(***************************************************************************)
\* Editing.js:589  metadata.payments || []
PaymentsOf(record) == IF "payments" \in DOMAIN record THEN record.payments ELSE <<>>

\* C27: the paymentStatus of a record is pending exactly when its payments
\* sequence is empty and paid exactly when the sequence holds a verified
\* payment, and the sequence only grows at its end
C27_PaymentStatusFollowsPayments ==
    /\ [](metadata.exists =>
            /\ metadata.paymentStatus = "pending" <=> PaymentsOf(metadata) = <<>>
            /\ metadata.paymentStatus = "paid" <=>
                  \E i \in 1..Len(PaymentsOf(metadata)) :
                      PaymentsOf(metadata)[i].status = "verified")
    /\ [](editing.exists =>
            /\ editing.paymentStatus = "pending" <=> PaymentsOf(editing) = <<>>
            /\ editing.paymentStatus = "paid" <=>
                  \E i \in 1..Len(PaymentsOf(editing)) :
                      PaymentsOf(editing)[i].status = "verified")
    /\ [][ /\ (metadata.exists /\ metadata'.exists) =>
                 /\ Len(PaymentsOf(metadata')) >= Len(PaymentsOf(metadata))
                 /\ SubSeq(PaymentsOf(metadata'), 1, Len(PaymentsOf(metadata)))
                       = PaymentsOf(metadata)
           /\ (editing.exists /\ editing'.exists) =>
                 /\ Len(PaymentsOf(editing')) >= Len(PaymentsOf(editing))
                 /\ SubSeq(PaymentsOf(editing'), 1, Len(PaymentsOf(editing)))
                       = PaymentsOf(editing) ]_vars

(***************************************************************************)
(* Document kinds.                                                         *)
(***************************************************************************)
\* C28: a review that names no recognized document kind is refused and leaves
\* the record as it was, so every key of documentReviews is a recognized kind
C28_ReviewNeedsRecognizedKind ==
    /\ [](app.exists =>
            \A k \in DOMAIN app.documentReviews :
                app.documentReviews[k].status # "none" =>
                    k \in DocumentFields
                            \cup {"jobOffer", "contract", "edited_cv", "edited_cover"})
    /\ [](metadata.exists =>
            \A i \in 1..Len(metadata.documentReviews) :
                metadata.documentReviews[i].kind
                    \in DocumentFields
                          \cup {"jobOffer", "contract", "edited_cv", "edited_cover"})
    /\ [][ ( /\ request'.op = "review"
             /\ request'.documentType \notin
                    DocumentFields \cup {"jobOffer", "contract", "edited_cv", "edited_cover"} )
              => /\ response'.code \in 400..499
                 /\ app' = app
                 /\ metadata' = metadata ]_vars

(***************************************************************************)
(* The scenario of a rejected cv.                                          *)
(***************************************************************************)
\* C29: after a new application with passport, photo, cv and qualifications,
\* the rejection of the cv, the re-upload of the cv and then the approval of
\* each of the four required kinds, the record has status
\* documents-approved, uploadCount 2, rejection count 1 for the cv, and the
\* re-upload request for the cv that the rejection opened is completed
C29_RejectedCvScenario ==
    ( /\ Len(history) = 7
      /\ history[1].op = "upload"
      /\ history[1].form.files = RequiredDocs
      /\ history[2].op = "review"
      /\ history[2].documentType = "cv"
      /\ history[2].status = "rejected"
      /\ history[3].op = "upload"
      /\ history[3].form.files = {"cv"}
      /\ \A i \in 4..7 : history[i].op = "review" /\ history[i].status = "approved"
      /\ {history[i].documentType : i \in 4..7} = RequiredDocs )
     => /\ app.status = "documents-approved"
        /\ app.uploadCount = 2
        /\ app.documentRejectionCount["cv"] = 1
        /\ \E i \in 1..Len(app.reuploadRequests) :
               /\ app.reuploadRequests[i].documents = <<"cv">>
               /\ app.reuploadRequests[i].status = "completed"

(***************************************************************************)
(* Approved applications.                                                  *)
(***************************************************************************)
\* C30: a record whose status is documents-approved has the review of each of
\* passport, photo, cv and qualifications approved, whatever reviews, status
\* operations, re-upload requests and uploads it has gone through
C30_ApprovedMeansFourApproved ==
    /\ (app.exists /\ app.status = "documents-approved") =>
          \A k \in RequiredDocs : app.documentReviews[k].status = "approved"
    /\ (metadata.exists /\ metadata.status = "documents-approved") =>
          \A k \in RequiredDocs : ReviewOf(metadata.documentReviews, k).status = "approved"

(***************************************************************************)
(* Re-upload requests.                                                     *)
(***************************************************************************)
\* C31: a request-reupload that succeeds leaves the status reupload-requested,
\* whether it appends a request or finds a pending one with the same
\* documents, and a request it appends names only requested kinds whose review
\* is rejected when the request comes in
C31_ReuploadRequestedWithRejectedKinds ==
    [][ (request'.op = "request-reupload" /\ response'.code = 200) =>
           /\ app' # app =>
                 /\ app'.status = "reupload-requested"
                 /\ Len(app'.reuploadRequests) > Len(app.reuploadRequests) =>
                       LET new == app'.reuploadRequests[Len(app'.reuploadRequests)]
                       IN  \A i \in 1..Len(new.documents) :
                               /\ \E j \in 1..Len(request'.documents) :
                                      request'.documents[j] = new.documents[i]
                               /\ app.documentReviews[new.documents[i]].status = "rejected"
           /\ metadata' # metadata =>
                 /\ metadata'.status = "reupload-requested"
                 /\ Len(metadata'.reuploadRequests) > Len(metadata.reuploadRequests) =>
                       LET new == metadata'.reuploadRequests[Len(metadata'.reuploadRequests)]
                       IN  \A i \in 1..Len(new.documents) :
                               /\ \E j \in 1..Len(request'.documents) :
                                      request'.documents[j] = new.documents[i]
                               /\ ReviewOf(metadata.documentReviews,
                                           new.documents[i]).status = "rejected" ]_vars

(***************************************************************************)
(* The two status maps.                                                    *)
(***************************************************************************)
\* C32: the documentStatus of every reviewed kind equals the status of its
\* review in every state, so a sync-document-statuses call finds nothing to
\* set (syncCount 0) and adds no comment, also when it follows another sync
C32_StatusMapsAgree ==
    /\ [](app.exists =>
            \A k \in DOMAIN app.documentReviews :
                app.documentReviews[k].status # "none" =>
                    LoadedDocumentStatus(app)[k] = app.documentReviews[k].status)
    /\ [][ (request'.op = "sync" /\ response'.code = 200) =>
              /\ response'.syncCount = 0
              /\ app'.comments = app.comments ]_vars

(***************************************************************************)
(* The sweep of the download tokens.                                       *)
(***************************************************************************)
\* C33: when the sweep keeps firing, a token that is in the table after its
\* expiry time is eventually out of the table, and the sweep removes no token
\* whose expiry time has not passed
C33_SweepRemovesExpiredOnly ==
    /\ \A token \in 1..MaxTokens :
           ( /\ token \in Tokens(downloadTokens)
             /\ time > TokenData(downloadTokens, token).expiresAt )
             ~> (token \notin Tokens(downloadTokens))
    /\ [][ request'.op = "sweep" =>
              /\ \A d \in downloadTokens \ downloadTokens' : time > d.expiresAt
              /\ \A d \in downloadTokens : time <= d.expiresAt => d \in downloadTokens' ]_vars

\* the sweep has removed a token that no download had used, after its expiry
\* time, and has left in the table a token whose time has not come
C33_Witness ==
    /\ request.op = "sweep"
    /\ response.cleaned # {}
    /\ \E d \in downloadTokens : time <= d.expiresAt

\* C37: a download that presents a token of the table, unused and not
\* expired, and asks for a type of which the token holds no file answers
\* file-not-found and removes the token, whatever other file the token holds
C37_MissingFileRemovesToken ==
    [][ \A d \in downloadTokens :
            ( /\ request'.op = "download"
              /\ request'.token = d.token
              /\ ~d.used
              /\ time <= d.expiresAt
              /\ request'.type \notin d.files )
             => /\ response' = Reply(404, "FILE_NOT_FOUND")
                /\ request'.token \notin Tokens(downloadTokens')
                /\ downloadTokens' = downloadTokens \ {d} ]_vars

\* the only token generated, for a paid record that holds the edited cv alone,
\* has been presented for the cover letter within its hour: the download got
\* file-not-found and the token, which held the cv, is gone
C37_Witness ==
    /\ request.op = "download"
    /\ request.type = "cover"
    /\ response = Reply(404, "FILE_NOT_FOUND")
    /\ clock = 3
    /\ editing.status = "editing_paid"
    /\ editing.editedFiles = {"cv"}
    /\ minted = 1
    /\ request.token = 1
    /\ time = 0
    /\ downloadTokens = {}

(***************************************************************************)
(* Paid editing records.                                                   *)
(***************************************************************************)
\* C35: an editing record whose paymentStatus is paid has status editing_paid
\* in every state: nothing moves the status of a paid record
C35_PaidMeansEditingPaid ==
    (editing.exists /\ editing.paymentStatus = "paid") => editing.status = "editing_paid"

\* C36: the status of an editing record becomes editing_paid only from
\* editing_completed, with every deliverable of the service type uploaded, so
\* every token of the table holds a file for each of these deliverables
C36_PaidOnlyWhenCompleted ==
    /\ [][ ( /\ editing.exists /\ editing'.exists
             /\ editing.status # "editing_paid"
             /\ editing'.status = "editing_paid" )
              => /\ editing.status = "editing_completed"
                 /\ editing.serviceType \in {"cv", "both"} => "cv" \in editing.editedFiles
                 /\ editing.serviceType \in {"cover", "both"} =>
                       "cover" \in editing.editedFiles ]_vars
    /\ [](\A d \in downloadTokens :
             /\ editing.serviceType \in {"cv", "both"} => "cv" \in d.files
             /\ editing.serviceType \in {"cover", "both"} => "cover" \in d.files)

(***************************************************************************)
(* Pending re-upload requests of the admin router.                         *)
(***************************************************************************)
\* C38: in the metadata.json of the admin router every re-upload request that
\* is pending names at least one kind whose review is rejected, after every
\* review, re-upload request, status operation and comment
C38_PendingRequestHasRejectedKind ==
    metadata.exists =>
        \A i \in 1..Len(metadata.reuploadRequests) :
            metadata.reuploadRequests[i].status = "pending" =>
                \E j \in 1..Len(metadata.reuploadRequests[i].documents) :
                    ReviewOf(metadata.documentReviews,
                             metadata.reuploadRequests[i].documents[j]).status = "rejected"

\* the approval of the cv has removed the pending request for the cv alone,
\* has left the pending request for the cv and the photo, whose photo is still
\* rejected, and has opened one for the photo
C38_Witness ==
    /\ metadata.exists
    /\ request.op = "review"
    /\ request.documentType = "cv"
    /\ request.status = "approved"
    /\ Len(metadata.reuploadRequests) = 2
    /\ metadata.reuploadRequests[1].status = "pending"
    /\ \E j \in 1..Len(metadata.reuploadRequests[1].documents) :
           metadata.reuploadRequests[1].documents[j] = "cv"
    /\ metadata.reuploadRequests[2].status = "pending"
    /\ metadata.reuploadRequests[2].documents = <<"photo">>
    /\ ReviewOf(metadata.documentReviews, "photo").status = "rejected"

(***************************************************************************)
(* The two review handlers.                                                *)
(***************************************************************************)
\* C39: when the review handler of the admin router and that of the
\* application router get the same review events, starting from the record of
\* the same new application, the two records have the same status after every
\* event
C39_ReviewHandlersAgreeOnStatus ==
    request.op = "admin-review" => metadata.status = app.status

(***************************************************************************)
(* Two upload requests for an e-mail that has a document, handled at the   *)
(* same time.                                                              *)
(***************************************************************************)
\* the applicant has sent the four required documents once
InitConcurrent ==
    /\ app = NewApplication(RequiredDocs,
                            [preferredCountry |-> "Germany", preferredJob |-> "Nurses",
                             additionalInfo |-> "note"], 0)
    /\ metadata = Absent
    /\ folder = [exists |-> TRUE, files |-> RequiredDocs]
    /\ editing = Absent
    /\ clock = 0
    /\ request = NoRequest
    /\ response = NoResponse
    /\ downloadTokens = {}
    /\ minted = 0
    /\ time = 0
    /\ history = <<>>
    /\ handlers = IdleHandlers
    /\ accepted = 1

\* a request arrives: multer stores its files, the handler runs to its first await
ConcurrentLoadStep ==
    /\ clock + Cardinality({h \in Handlers : handlers[h].pc = "loaded"}) < MaxRaceClock
    /\ \E h \in Handlers, form \in UploadInputs :
           /\ handlers[h].pc = "idle"
           /\ request' = [op |-> "upload", form |-> form, handler |-> h]
           /\ folder' = StoreFiles(folder, form.files)
           /\ ConcurrentLoad(h, form)
    /\ UNCHANGED <<app, metadata, editing, clock, accepted>>
    /\ UNCHANGED <<tokenVars, history>>

\* a handler that has loaded the document runs to its end
ConcurrentSaveStep ==
    /\ \E h \in Handlers :
           /\ handlers[h].pc = "loaded"
           /\ request' = [op |-> "save", handler |-> h]
           /\ ConcurrentSave(h)
    /\ UNCHANGED <<metadata, folder, editing>>
    /\ UNCHANGED <<tokenVars, history>>

NextConcurrent == ConcurrentLoadStep \/ ConcurrentSaveStep

SpecConcurrent == InitConcurrent /\ [][NextConcurrent]_vars

\* C34: when two upload handlers for an e-mail that has a document run at the
\* same time, at most three uploads are ever accepted for the e-mail and the
\* stored uploadCount is the number of accepted uploads
C34_ConcurrentUploadsCounted ==
    /\ accepted <= 3
    /\ app.uploadCount = accepted

=============================================================================
